---- MODULE Spec2Model ----
(***************************************************************************)
(* postgres-from-row: the FromRow derive macro and the code it generates.  *)
(*                                                                         *)
(* The model follows one struct declaration through the derive             *)
(* (from_derive_input, validate, predicates, generate_from_row,            *)
(* generate_try_from_row, quote / write_errors) and then runs the two      *)
(* generated operations, from_row and try_from_row, on a row.              *)
(*                                                                         *)
(* An Option<String> is a sequence: <<>> is None, <<s>> is Some(s).        *)
(* A Result is a record [ok, val, err]. A token stream is kept as the      *)
(* structure quote! gave it, so that the run of the generated code reads   *)
(* what the generators wrote.                                              *)
(***************************************************************************)
EXTENDS Naturals, Sequences, FiniteSets, TLC

VARIABLES
    fields,               \* DeriveFromRow.data: the declared fields, in order
    stage,                \* where try_derive_from_row / generate stands
    error,                \* the Err travelling up the `?` chain (Option)
    predicates,           \* generate's local `predicates`
    from_row_fields,      \* generate's local `from_row_fields`
    try_from_row_fields,  \* generate's local `try_from_row_fields`
    output,               \* the token stream derive_from_row returns
    row,                  \* the row handed to the generated operations
    rt,                   \* where the run of the generated code stands
    fr,                   \* the run of the generated from_row
    tr,                   \* the run of the generated try_from_row
    impls                 \* the FromRow impls already derived in the crate, by type

vars == <<fields, stage, error, predicates, from_row_fields,
          try_from_row_fields, output, row, rt, fr, tr, impls>>

----------------------------------------------------------------------------
(* Bounds and the values the inputs are drawn from.                        *)

MaxFields == 2

None == <<>>
Some(s) == <<s>>
is_some(o) == o # <<>>
is_none(o) == o = <<>>
unwrap(o) == o[1]

Ok(v) == [ok |-> TRUE, val |-> v, err |-> ""]
Err(e) == [ok |-> FALSE, val |-> <<>>, err |-> e]

\* The identifiers of the test's Todo struct, by position.
FieldIdents == <<"todo_id", "text", "user", "json">>

\* Strings that do not lex as a Rust token stream (an unbalanced delimiter).
Unlexable == {"("}

FromValues == {None, Some("R")}
TryFromValues == {None, Some("R")}
FromFnValues == {None, Some("json"), Some("(")}
TryFromFnValues == {None, Some("parse")}
RenameValues == {None, Some("user_id")}

\* What the user writes on one field: the six attributes.
Attrs == [flatten : BOOLEAN, try_from : TryFromValues, from : FromValues,
          rename : RenameValues, from_fn : FromFnValues,
          try_from_fn : TryFromFnValues]

\* darling's FromField: the descriptor of the field at position i. A flattened
\* field is declared with the nested struct type, any other with a column type.
FromRowField(i, a) ==
    [ident |-> FieldIdents[i],
     ty |-> IF a.flatten THEN "User" ELSE "i32",
     flatten |-> a.flatten,
     try_from |-> a.try_from,
     from |-> a.from,
     rename |-> a.rename,
     from_fn |-> a.from_fn,
     try_from_fn |-> a.try_from_fn]

\* The nested struct of the test: struct User { user_id: i32 }.
UserFields ==
    <<[ident |-> "user_id", ty |-> "i32", flatten |-> FALSE, try_from |-> None,
       from |-> None, rename |-> None, from_fn |-> None, try_from_fn |-> None]>>

----------------------------------------------------------------------------
(* FromRowField: the per-field functions of the derive.                    *)

\* The three messages of validate (abridged) and the lex error of a string
\* that is no token stream.
ErrFromTogether == "can't use the from attributes together"
ErrFlattenFrom == "can't combine flatten with one of the from attributes"
ErrFlattenRename == "can't combine flatten with rename"
ErrLex == "lex error"

\* str::parse::<TokenStream>() / TokenStream::from_str: the tokens, or a lex error.
Lex(s) == IF s \in Unlexable THEN Err(ErrLex) ELSE Ok(s)

\* The match on (from, from_fn, try_from, try_from_fn) of validate.
FromMatch(f) ==
    \/ is_some(f.from) /\ is_none(f.from_fn) /\ is_none(f.try_from) /\ is_none(f.try_from_fn)
    \/ is_none(f.from) /\ is_some(f.from_fn) /\ is_none(f.try_from) /\ is_none(f.try_from_fn)
    \/ is_none(f.from) /\ is_none(f.from_fn) /\ is_some(f.try_from) /\ is_none(f.try_from_fn)
    \/ is_none(f.from) /\ is_none(f.from_fn) /\ is_none(f.try_from) /\ is_some(f.try_from_fn)
    \/ is_none(f.from) /\ is_none(f.from_fn) /\ is_none(f.try_from) /\ is_none(f.try_from_fn)

\* FlattenWithFrom without the from_fn and try_from_fn operands.
FlattenWithFromTypesOnly(f) ==
    f.flatten /\ (is_some(f.from) \/ is_some(f.try_from))

\* The second check of validate: flatten with one of the *from* attributes.
FlattenWithFrom(f) ==
    f.flatten /\ (is_some(f.from) \/ is_some(f.try_from) \/ is_some(f.from_fn)
                  \/ is_some(f.try_from_fn))

\* The third check of validate: rename with flatten.
RenameWithFlatten(f) == is_some(f.rename) /\ f.flatten

\* FromRowField::validate.
FromRowField_validate(f) ==
    IF ~FromMatch(f) THEN Err(ErrFromTogether)
    ELSE IF FlattenWithFrom(f) THEN Err(ErrFlattenFrom)
    ELSE IF RenameWithFlatten(f) THEN Err(ErrFlattenRename)
    ELSE Ok(<<>>)

\* FromRowField::target_ty.
target_ty(f) ==
    IF is_some(f.from) THEN Lex(unwrap(f.from))
    ELSE IF is_some(f.try_from) THEN Lex(unwrap(f.try_from))
    ELSE Ok(f.ty)

\* column_name that never looks at rename.
column_name_ident_only(f) == f.ident

\* FromRowField::column_name.
column_name(f) == IF is_some(f.rename) THEN unwrap(f.rename) ELSE f.ident

\* A where-clause predicate `lhs: bound<arg>`.
Pred(lhs, bound, arg) == [lhs |-> lhs, bound |-> bound, arg |-> arg]

TryFromErr(ty, target) == <<ty, "as TryFrom", target, "Error">>

\* PushedPredicates with the extraction bound pushed whatever the attributes.
PushedPredicatesUnguarded(f, target) ==
    <<IF f.flatten THEN Pred(<<target>>, "FromRow", <<>>)
                   ELSE Pred(<<target>>, "FromSql", <<>>)>>
    \o
    (IF is_some(f.from)
     THEN <<Pred(<<f.ty>>, "From", <<target>>)>>
     ELSE IF is_some(f.try_from)
     THEN <<Pred(<<f.ty>>, "TryFrom", <<target>>),
            Pred(<<"tokio_postgres::Error">>, "From", TryFromErr(f.ty, target)),
            Pred(TryFromErr(f.ty, target), "Debug", <<>>)>>
     ELSE <<>>)

\* The predicates add_predicates pushes for one field, after target_ty succeeded.
PushedPredicates(f, target) ==
    (IF is_none(f.try_from_fn) /\ is_none(f.from_fn)
     THEN <<IF f.flatten THEN Pred(<<target>>, "FromRow", <<>>)
                         ELSE Pred(<<target>>, "FromSql", <<>>)>>
     ELSE <<>>)
    \o
    (IF is_some(f.from)
     THEN <<Pred(<<f.ty>>, "From", <<target>>)>>
     ELSE IF is_some(f.try_from)
     THEN <<Pred(<<f.ty>>, "TryFrom", <<target>>),
            Pred(<<"tokio_postgres::Error">>, "From", TryFromErr(f.ty, target)),
            Pred(TryFromErr(f.ty, target), "Debug", <<>>)>>
     ELSE <<>>)

\* FromRowField::add_predicates: the vector after the pushes, or the lex error.
add_predicates(f, preds) ==
    LET t == target_ty(f) IN
    IF ~t.ok THEN Err(t.err) ELSE Ok(preds \o PushedPredicates(f, t.val))

\* The target type of the generated extraction: `_` with a conversion function.
ExtractTarget(f) ==
    IF is_none(f.from_fn) /\ is_none(f.try_from_fn) THEN target_ty(f) ELSE Ok("_")

\* One generated initializer `ident: conv(extract)`.
\*   extract: the call that reads the row, with its target type and column
\*   conv: the conversion wrapped around it ("" for none), conv_fn its callee
\*   on_err: what follows a fallible conversion (".expect" or "?")
FieldInit(ident, extract, target, column, conv, conv_fn, on_err) ==
    [ident |-> ident, extract |-> extract, target_ty |-> target, column |-> column,
     conv |-> conv, conv_fn |-> conv_fn, on_err |-> on_err]

\* generate_from_row without the conversion: the raw extracted value is assigned.
generate_from_row_raw(f) ==
    LET t == ExtractTarget(f) IN
    IF ~t.ok THEN Err(t.err)
    ELSE Ok(FieldInit(f.ident, IF f.flatten THEN "FromRow::from_row" ELSE "Row::get",
                      t.val, IF f.flatten THEN None ELSE Some(column_name(f)),
                      "", "", ""))

\* FromRowField::generate_from_row.
generate_from_row(f) ==
    LET t == ExtractTarget(f)
        extract == IF f.flatten THEN "FromRow::from_row" ELSE "Row::get"
        column == IF f.flatten THEN None ELSE Some(column_name(f))
    IN
    IF ~t.ok THEN Err(t.err)
    ELSE IF is_some(f.from_fn)
         THEN LET fn == Lex(unwrap(f.from_fn)) IN
              IF ~fn.ok THEN Err(fn.err)
              ELSE Ok(FieldInit(f.ident, extract, t.val, column, "from_fn", fn.val, ""))
    ELSE IF is_some(f.try_from_fn)
         THEN LET fn == Lex(unwrap(f.try_from_fn)) IN
              IF ~fn.ok THEN Err(fn.err)
              ELSE Ok(FieldInit(f.ident, extract, t.val, column, "try_from_fn", fn.val, "expect"))
    ELSE IF is_some(f.from)
         THEN Ok(FieldInit(f.ident, extract, t.val, column, "from", f.ty, ""))
    ELSE IF is_some(f.try_from)
         THEN Ok(FieldInit(f.ident, extract, t.val, column, "try_from", f.ty, "expect"))
    ELSE Ok(FieldInit(f.ident, extract, t.val, column, "", "", ""))

\* generate_try_from_row that reads the identifier's column whatever rename says.
generate_try_from_row_unrenamed(f) ==
    LET r == generate_from_row(f) IN
    IF ~r.ok THEN r
    ELSE Ok([r.val EXCEPT
                !.extract = IF f.flatten THEN "FromRow::try_from_row?" ELSE "Row::try_get?",
                !.column = IF f.flatten THEN None ELSE Some(f.ident),
                !.on_err = IF @ = "expect" THEN "?" ELSE @])

\* generate_try_from_row with the extraction and unwrapping of from_row.
generate_try_from_row_panicking(f) == generate_from_row(f)

\* FromRowField::generate_try_from_row.
generate_try_from_row(f) ==
    LET t == ExtractTarget(f)
        extract == IF f.flatten THEN "FromRow::try_from_row?" ELSE "Row::try_get?"
        column == IF f.flatten THEN None ELSE Some(column_name(f))
    IN
    IF ~t.ok THEN Err(t.err)
    ELSE IF is_some(f.from_fn)
         THEN LET fn == Lex(unwrap(f.from_fn)) IN
              IF ~fn.ok THEN Err(fn.err)
              ELSE Ok(FieldInit(f.ident, extract, t.val, column, "from_fn", fn.val, ""))
    ELSE IF is_some(f.try_from_fn)
         THEN LET fn == Lex(unwrap(f.try_from_fn)) IN
              IF ~fn.ok THEN Err(fn.err)
              ELSE Ok(FieldInit(f.ident, extract, t.val, column, "try_from_fn", fn.val, "?"))
    ELSE IF is_some(f.from)
         THEN Ok(FieldInit(f.ident, extract, t.val, column, "from", f.ty, ""))
    ELSE IF is_some(f.try_from)
         THEN Ok(FieldInit(f.ident, extract, t.val, column, "try_from", f.ty, "?"))
    ELSE Ok(FieldInit(f.ident, extract, t.val, column, "", "", ""))

----------------------------------------------------------------------------
(* DeriveFromRow: the loops over the fields, and generate.                 *)

\* ValidateFrom that looks at the first field only.
ValidateFirstOnly(fs, i) ==
    IF i > Len(fs) THEN Ok(<<>>) ELSE FromRowField_validate(fs[i])

RECURSIVE ValidateFrom(_, _)
\* The loop of DeriveFromRow::validate from field i on: the first error ends it.
ValidateFrom(fs, i) ==
    IF i > Len(fs) THEN Ok(<<>>)
    ELSE LET r == FromRowField_validate(fs[i]) IN
         IF ~r.ok THEN r ELSE ValidateFrom(fs, i + 1)

\* DeriveFromRow::validate.
DeriveFromRow_validate(fs) == ValidateFrom(fs, 1)

RECURSIVE PredicatesFrom(_, _, _)
\* The loop of DeriveFromRow::predicates from field i on.
PredicatesFrom(fs, i, preds) ==
    IF i > Len(fs) THEN Ok(preds)
    ELSE LET r == add_predicates(fs[i], preds) IN
         IF ~r.ok THEN r ELSE PredicatesFrom(fs, i + 1, r.val)

\* DeriveFromRow::predicates.
DeriveFromRow_predicates(fs) == PredicatesFrom(fs, 1, <<>>)

RECURSIVE CollectFromRowReversed(_, _, _)
\* CollectFromRow that puts each initializer in front of the earlier ones.
CollectFromRowReversed(fs, i, acc) ==
    IF i > Len(fs) THEN Ok(acc)
    ELSE LET r == generate_from_row(fs[i]) IN
         IF ~r.ok THEN Err(r.err)
         ELSE CollectFromRowReversed(fs, i + 1, <<r.val>> \o acc)

RECURSIVE CollectFromRow(_, _, _)
\* fields().iter().map(generate_from_row).collect::<Result<Vec<_>>>()
CollectFromRow(fs, i, acc) ==
    IF i > Len(fs) THEN Ok(acc)
    ELSE LET r == generate_from_row(fs[i]) IN
         IF ~r.ok THEN Err(r.err) ELSE CollectFromRow(fs, i + 1, Append(acc, r.val))

RECURSIVE CollectTryFromRowReversed(_, _, _)
\* CollectTryFromRow that puts each initializer in front of the earlier ones.
CollectTryFromRowReversed(fs, i, acc) ==
    IF i > Len(fs) THEN Ok(acc)
    ELSE LET r == generate_try_from_row(fs[i]) IN
         IF ~r.ok THEN Err(r.err)
         ELSE CollectTryFromRowReversed(fs, i + 1, <<r.val>> \o acc)

RECURSIVE CollectTryFromRow(_, _, _)
\* fields().iter().map(generate_try_from_row).collect::<Result<Vec<_>>>()
CollectTryFromRow(fs, i, acc) ==
    IF i > Len(fs) THEN Ok(acc)
    ELSE LET r == generate_try_from_row(fs[i]) IN
         IF ~r.ok THEN Err(r.err) ELSE CollectTryFromRow(fs, i + 1, Append(acc, r.val))

\* The token stream of the macro: an impl block, or compile_error! invocations.
NoTokens ==
    [kind |-> "none", errors |-> <<>>, predicates |-> <<>>,
     from_row |-> <<>>, try_from_row |-> <<>>]

\* The quote! of generate: the impl with its where clause and both operations.
QuoteImpl(preds, frf, tfrf) ==
    [kind |-> "impl", errors |-> <<>>, predicates |-> preds,
     from_row |-> frf, try_from_row |-> tfrf]

\* Error::write_errors: one compile_error! per error, and nothing else.
write_errors(e) ==
    [kind |-> "compile_error", errors |-> <<e>>, predicates |-> <<>>,
     from_row |-> <<>>, try_from_row |-> <<>>]

\* DeriveFromRow::generate, as the function of the declared fields.
generate(fs) ==
    LET v == DeriveFromRow_validate(fs)
        p == DeriveFromRow_predicates(fs)
        a == CollectFromRow(fs, 1, <<>>)
        b == CollectTryFromRow(fs, 1, <<>>)
    IN
    IF ~v.ok THEN Err(v.err)
    ELSE IF ~p.ok THEN Err(p.err)
    ELSE IF ~a.ok THEN Err(a.err)
    ELSE IF ~b.ok THEN Err(b.err)
    ELSE Ok(QuoteImpl(p.val, a.val, b.val))

----------------------------------------------------------------------------
(* The generated code at run time.                                         *)

\* A cell of the row: the column is absent, or holds a value on which the
\* field's fallible conversion succeeds ("ok") or returns Err ("bad").
Cells == {"absent", "ok", "bad"}

Columns == {FieldIdents[i] : i \in 1..MaxFields} \cup {"user_id"}

Rows == [Columns -> Cells]

NoRow == [c \in Columns |-> "absent"]

\* The outcome of evaluating generated code: a value, a panic, or an Err.
Outcome(o, v, e, l) == [outcome |-> o, value |-> v, error |-> e, log |-> l]

\* The FromRow impl of a type, if the crate holds one.
ImplOf(ty) == IF ty \in DOMAIN impls THEN Ok(impls[ty]) ELSE Err("no impl")

\* A fallible user conversion (TryFrom::try_from, a try_from_fn) returns Err
\* on a value read from a "bad" cell.
ConversionFails(v) == Len(v) > 0 /\ v[Len(v)] = "bad"

\* The conversion of a generated initializer applied to the extracted value v.
ApplyConv(init, v, l) ==
    IF init.conv = "" THEN Outcome("ok", v, <<>>, l)
    ELSE
        LET called == Append(l, <<"call", init.conv, init.conv_fn>>) IN
        IF init.on_err = "" THEN Outcome("ok", <<init.conv, init.conv_fn>> \o v, <<>>, called)
        ELSE IF ~ConversionFails(v)
             THEN Outcome("ok", <<init.conv, init.conv_fn>> \o v, <<>>, called)
        ELSE IF init.on_err = "expect"
             THEN Outcome("panic", <<>>, <<"could not convert column">>, called)
        ELSE Outcome("err", <<>>, <<"convert", init.ident>>, called)

RECURSIVE RunInits(_, _, _, _, _)
\* The struct expression `Self { inits }` from initializer i on, in order:
\* each initializer is its extraction (a column read, or the nested type's
\* operation on the same row), then its conversion; the first panic or
\* returned Err ends the expression.
RunInits(inits, r, i, v, l) ==
    IF i > Len(inits) THEN Outcome("ok", v, <<>>, l)
    ELSE
        LET init == inits[i]
            col == unwrap(init.column)
            read == <<<<"read", col, init.target_ty>>>>
            impl == ImplOf(init.target_ty)
            nested == IF init.extract = "FromRow::from_row"
                      THEN RunInits(impl.val.from_row, r, 1, <<>>, <<>>)
                      ELSE RunInits(impl.val.try_from_row, r, 1, <<>>, <<>>)
            e == IF init.extract \in {"Row::get", "Row::try_get?"}
                 THEN IF r[col] = "absent"
                      THEN (IF init.extract = "Row::get"
                            THEN Outcome("panic", <<>>, <<"column", col>>, read)
                            ELSE Outcome("err", <<>>, <<"column", col>>, read))
                      ELSE ApplyConv(init, <<col, r[col]>>, read)
                 ELSE IF nested.outcome # "ok" THEN nested
                      ELSE ApplyConv(init, <<"{">> \o nested.value \o <<"}">>, nested.log)
        IN
        IF e.outcome # "ok" THEN Outcome(e.outcome, <<>>, e.error, l \o e.log)
        ELSE RunInits(inits, r, i + 1, v \o e.value, l \o e.log)

\* One generated initializer on row r.
EvalInit(init, r) == RunInits(<<init>>, r, 1, <<>>, <<>>)

\* A run of a generated operation: the next initializer, what was built and
\* done so far, and how it ended.
NoRun == [pos |-> 1, outcome |-> "idle", value |-> <<>>, error |-> <<>>, log |-> <<>>]

\* Every type a generated nested call names has a FromRow impl (else rustc
\* rejects the impl and there is nothing to run).
Compiles(out) ==
    /\ out.kind = "impl"
    /\ \A i \in DOMAIN out.from_row :
          out.from_row[i].extract = "FromRow::from_row" => ImplOf(out.from_row[i].target_ty).ok
    /\ \A i \in DOMAIN out.try_from_row :
          out.try_from_row[i].extract = "FromRow::try_from_row?"
             => ImplOf(out.try_from_row[i].target_ty).ok

\* One step of a run over `inits`: evaluate the initializer at run.pos.
StepRun(run, inits, r) ==
    LET e == EvalInit(inits[run.pos], r) IN
    IF e.outcome # "ok"
    THEN [pos |-> run.pos, outcome |-> e.outcome, value |-> <<>>, error |-> e.error,
          log |-> run.log \o e.log]
    ELSE [pos |-> run.pos + 1, outcome |-> "running", value |-> Append(run.value, e.value),
          error |-> <<>>, log |-> run.log \o e.log]

----------------------------------------------------------------------------
(* The state machine.                                                      *)

\* The impls the crate holds besides the struct under derive: the test's
\* #[derive(FromRow)] struct User.
DerivedImpls == [ty \in {"User"} |-> generate(UserFields).val]

\* DeriveFromRow::from_derive_input has built the descriptor of a struct with
\* named fields; generate has not started.
Init ==
    /\ \E n \in 0..MaxFields : \E a \in [1..n -> Attrs] :
          fields = [i \in 1..n |-> FromRowField(i, a[i])]
    /\ stage = "parsed"
    /\ error = None
    /\ predicates = <<>>
    /\ from_row_fields = <<>>
    /\ try_from_row_fields = <<>>
    /\ output = NoTokens
    /\ row = NoRow
    /\ rt = "idle"
    /\ fr = NoRun
    /\ tr = NoRun
    /\ impls = DerivedImpls

\* An Err leaves generate and try_derive_from_row through `?`, and
\* derive_from_row's Err arm returns err.write_errors().
Fail(e) ==
    /\ stage' = "done"
    /\ error' = Some(e)
    /\ output' = write_errors(e)

\* generate: self.validate()?
Validate ==
    /\ stage = "parsed"
    /\ LET r == DeriveFromRow_validate(fields) IN
       IF r.ok THEN stage' = "validated" /\ error' = error /\ output' = output
       ELSE Fail(r.err)
    /\ UNCHANGED <<fields, predicates, from_row_fields, try_from_row_fields,
                   row, rt, fr, tr, impls>>

\* generate: let predicates = self.predicates()?
Predicates ==
    /\ stage = "validated"
    /\ LET r == DeriveFromRow_predicates(fields) IN
       IF r.ok THEN /\ stage' = "predicates" /\ predicates' = r.val
                    /\ error' = error /\ output' = output
       ELSE Fail(r.err) /\ predicates' = predicates
    /\ UNCHANGED <<fields, from_row_fields, try_from_row_fields,
                   row, rt, fr, tr, impls>>

\* generate: let from_row_fields = ...collect()?
FromRowFields ==
    /\ stage = "predicates"
    /\ LET r == CollectFromRow(fields, 1, <<>>) IN
       IF r.ok THEN /\ stage' = "from_row_fields" /\ from_row_fields' = r.val
                    /\ error' = error /\ output' = output
       ELSE Fail(r.err) /\ from_row_fields' = from_row_fields
    /\ UNCHANGED <<fields, predicates, try_from_row_fields,
                   row, rt, fr, tr, impls>>

\* generate: let try_from_row_fields = ...collect()?
TryFromRowFields ==
    /\ stage = "from_row_fields"
    /\ LET r == CollectTryFromRow(fields, 1, <<>>) IN
       IF r.ok THEN /\ stage' = "try_from_row_fields" /\ try_from_row_fields' = r.val
                    /\ error' = error /\ output' = output
       ELSE Fail(r.err) /\ try_from_row_fields' = try_from_row_fields
    /\ UNCHANGED <<fields, predicates, from_row_fields,
                   row, rt, fr, tr, impls>>

\* generate: Ok(quote! { impl ... }), returned by derive_from_row's Ok arm.
Quote ==
    /\ stage = "try_from_row_fields"
    /\ output' = QuoteImpl(predicates, from_row_fields, try_from_row_fields)
    /\ stage' = "done"
    /\ UNCHANGED <<fields, error, predicates, from_row_fields,
                   try_from_row_fields, row, rt, fr, tr, impls>>

\* The columns the struct's fields name, those of a flattened User included:
\* what a query for the struct selects, in full or in part.
SelectedColumns(fs) ==
    UNION {IF fs[i].flatten THEN {column_name(UserFields[j]) : j \in DOMAIN UserFields}
                            ELSE {column_name(fs[i])} : i \in DOMAIN fs}

\* The test's from_row(row): a row reaches the generated operations. It holds
\* some of the selected columns (a column outside them is never looked at).
Query ==
    /\ stage = "done"
    /\ rt = "idle"
    /\ Compiles(output)
    /\ row' \in {r \in Rows : \A c \in Columns \ SelectedColumns(fields) : r[c] = "absent"}
    /\ rt' = "from_row"
    /\ fr' = [NoRun EXCEPT !.outcome = "running"]
    /\ UNCHANGED <<fields, stage, error, predicates, from_row_fields,
                   try_from_row_fields, output, tr, impls>>

\* Generated from_row: the next initializer of `Self { ... }`; a panic ends it.
FromRowStep ==
    /\ rt = "from_row"
    /\ fr.outcome = "running"
    /\ fr.pos <= Len(output.from_row)
    /\ fr' = StepRun(fr, output.from_row, row)
    /\ UNCHANGED <<fields, stage, error, predicates, from_row_fields,
                   try_from_row_fields, output, row, rt, tr, impls>>

\* Generated from_row ends (Self returned, or the panic unwound); the test
\* then calls try_from_row on the same row.
FromRowReturn ==
    /\ rt = "from_row"
    /\ \/ fr.outcome = "running" /\ fr.pos > Len(output.from_row)
          /\ fr' = [fr EXCEPT !.outcome = "ok"]
       \/ fr.outcome = "panic" /\ fr' = fr
    /\ rt' = "try_from_row"
    /\ tr' = [NoRun EXCEPT !.outcome = "running"]
    /\ UNCHANGED <<fields, stage, error, predicates, from_row_fields,
                   try_from_row_fields, output, row, impls>>

\* Generated try_from_row: the next initializer of `Ok(Self { ... })`; a `?`
\* on an Err returns it, a panic ends the call.
TryFromRowStep ==
    /\ rt = "try_from_row"
    /\ tr.outcome = "running"
    /\ tr.pos <= Len(output.try_from_row)
    /\ tr' = StepRun(tr, output.try_from_row, row)
    /\ UNCHANGED <<fields, stage, error, predicates, from_row_fields,
                   try_from_row_fields, output, row, rt, fr, impls>>

\* Generated try_from_row ends: Ok(Self { ... }), or the Err already returned.
TryFromRowReturn ==
    /\ rt = "try_from_row"
    /\ \/ tr.outcome = "running" /\ tr.pos > Len(output.try_from_row)
          /\ tr' = [tr EXCEPT !.outcome = "ok"]
       \/ tr.outcome \in {"err", "panic"} /\ tr' = tr
    /\ rt' = "done"
    /\ UNCHANGED <<fields, stage, error, predicates, from_row_fields,
                   try_from_row_fields, output, row, fr, impls>>

Next ==
    \/ Validate
    \/ Predicates
    \/ FromRowFields
    \/ TryFromRowFields
    \/ Quote
    \/ Query
    \/ FromRowStep
    \/ FromRowReturn
    \/ TryFromRowStep
    \/ TryFromRowReturn

Spec == Init /\ [][Next]_vars

----------------------------------------------------------------------------
(* Vocabulary of the properties, stated on the declaration and the row.    *)

ConversionAttrs == {"from", "from_fn", "try_from", "try_from_fn"}

\* The conversion attributes set on a field.
SetConversions(f) == {k \in ConversionAttrs : f[k] # <<>>}

\* The field passes FromRowField::validate.
Valid(f) == FromRowField_validate(f).ok

\* Every string of a conversion attribute of the field is a token stream.
Lexes(f) == \A k \in SetConversions(f) : f[k][1] \notin Unlexable

ValidationErrors == {ErrFromTogether, ErrFlattenFrom, ErrFlattenRename}

\* generate is past self.validate()? and still running.
Generating == stage \in {"validated", "predicates", "from_row_fields", "try_from_row_fields"}

\* The macro has just returned its output: nothing ran it yet.
Derived == stage = "done" /\ rt = "idle"

\* The macro has just returned an impl.
Returned == Derived /\ output.kind = "impl"

\* The column the declaration names for a field that is not flattened.
DeclaredColumn(f) == IF f.rename # <<>> THEN f.rename[1] ELSE f.ident

\* The field's conversion can fail.
Fallible(f) == f.try_from # <<>> \/ f.try_from_fn # <<>>

\* On row r the field cannot be built: its column (or, flattened, a column of
\* the nested User) is absent, or its fallible conversion fails on the cell.
FieldFails(f, r) ==
    IF f.flatten
    THEN \E j \in DOMAIN UserFields : r[DeclaredColumn(UserFields[j])] = "absent"
    ELSE \/ r[DeclaredColumn(f)] = "absent"
         \/ Fallible(f) /\ r[DeclaredColumn(f)] = "bad"

\* The first field of the declaration that cannot be built on r (0: none).
FirstFailing(fs, r) ==
    IF \E i \in DOMAIN fs : FieldFails(fs[i], r)
    THEN CHOOSE i \in DOMAIN fs :
            FieldFails(fs[i], r) /\ \A j \in 1..(i - 1) : ~FieldFails(fs[j], r)
    ELSE 0

\* The number of entries of a sequence that satisfy a test.
Count(seq, Test(_)) == Cardinality({k \in DOMAIN seq : Test(seq[k])})

----------------------------------------------------------------------------
C1_NumberSet(f) ==
    Len(f.from) + Len(f.from_fn) + Len(f.try_from) + Len(f.try_from_fn)

C1_Accepted(f) ==
    /\ C1_NumberSet(f) <= 1
    /\ ~(f.flatten /\ C1_NumberSet(f) >= 1)
    /\ ~(f.flatten /\ f.rename # <<>>)

\* C1: FromRowField::validate accepts a field if and only if at most one of
\* from, from_fn, try_from, try_from_fn is set, flatten is not set together
\* with any of them, and flatten is not set together with rename; every other
\* combination of the six attributes is an error, and generate reports it.
C1_ValidateAcceptsIff ==
    /\ stage = "parsed" =>
          \A i \in DOMAIN fields :
              FromRowField_validate(fields[i]).ok <=> C1_Accepted(fields[i])
    /\ (Generating \/ Derived) =>
          ((error # <<>> /\ error[1] \in ValidationErrors)
             <=> \E i \in DOMAIN fields : ~C1_Accepted(fields[i]))

\* A field whose only fault is flatten with from_fn was rejected.
C1_Witness ==
    /\ Derived
    /\ Len(fields) = 1
    /\ fields[1].flatten /\ SetConversions(fields[1]) = {"from_fn"} /\ fields[1].rename = <<>>
    /\ output.kind = "compile_error"
    /\ output.errors = <<ErrFlattenFrom>>

----------------------------------------------------------------------------
C2_NoPanicIn(inits) ==
    \A i \in DOMAIN inits :
        /\ inits[i].extract \in {"Row::try_get?", "FromRow::try_from_row?"}
        /\ inits[i].on_err # "expect"

\* C2: if some field's column is absent from the row, or some field's
\* fallible conversion (try_from, try_from_fn) fails, the generated from_row
\* panics and the generated try_from_row returns an Err without panicking;
\* try_from_row holds no panicking extraction and no expect, neither for its
\* own fields nor for those of a flattened nested struct.
C2_PanicVersusErr ==
    /\ Returned =>
          /\ C2_NoPanicIn(output.try_from_row)
          /\ \A i \in DOMAIN output.try_from_row :
                output.try_from_row[i].extract = "FromRow::try_from_row?"
                   => C2_NoPanicIn(ImplOf(output.try_from_row[i].target_ty).val.try_from_row)
    /\ tr.outcome # "panic"
    /\ rt = "done" =>
          ((\E i \in DOMAIN fields : FieldFails(fields[i], row))
              => fr.outcome = "panic" /\ tr.outcome = "err")

\* Both operations ran on a row that lacks a column of the flattened User,
\* next to a field whose try_from_fn fails.
C2_Witness ==
    /\ rt = "done"
    /\ Len(fields) = 2
    /\ fields[1].flatten
    /\ row["user_id"] = "absent"
    /\ fields[2].try_from_fn # <<>> /\ row[DeclaredColumn(fields[2])] = "bad"
    /\ fr.outcome = "panic"
    /\ tr.outcome = "err"

----------------------------------------------------------------------------
C3_Conversion(f) ==
    IF SetConversions(f) = {} THEN "" ELSE CHOOSE k \in SetConversions(f) : TRUE

C3_Shape(f, init, nestedCall, columnRead) ==
    IF f.flatten
    THEN /\ init.extract = nestedCall
         /\ init.target_ty = f.ty
         /\ init.column = <<>>
         /\ init.conv = ""
    ELSE /\ init.extract = columnRead
         /\ Len(init.column) = 1
         /\ init.conv = C3_Conversion(f)

C3_IsRead(e) == e[1] = "read"
C3_IsCall(e) == e[1] = "call"
C3_Flattened(f) == f.flatten
C3_Converted(f) == SetConversions(f) # {}

\* A run that built the whole struct read one column per plain field and per
\* field of each nested struct, and called one conversion per converted field.
C3_RunCounts(run) ==
    run.outcome = "ok" =>
        /\ Count(run.log, C3_IsRead)
              = (Len(fields) - Count(fields, C3_Flattened))
                + Count(fields, C3_Flattened) * Len(UserFields)
        /\ Count(run.log, C3_IsCall) = Count(fields, C3_Converted)

\* C3: for every field that passes validation the generated initializer, in
\* from_row and in try_from_row alike, either (flatten) calls the nested
\* type's FromRow operation on the same row, reading no column of its own and
\* converting nothing, or (no flatten) reads exactly one column and applies
\* the one conversion that is set exactly once to the extracted value.
C3_OneExtractionOneConversion ==
    /\ Returned =>
          /\ Len(output.from_row) = Len(fields)
          /\ Len(output.try_from_row) = Len(fields)
          /\ \A i \in DOMAIN fields :
                /\ C3_Shape(fields[i], output.from_row[i], "FromRow::from_row", "Row::get")
                /\ C3_Shape(fields[i], output.try_from_row[i],
                            "FromRow::try_from_row?", "Row::try_get?")
    /\ rt = "done" => C3_RunCounts(fr) /\ C3_RunCounts(tr)

\* Both operations built a struct with a flattened field and a from_fn field.
C3_Witness ==
    /\ rt = "done"
    /\ Len(fields) = 2
    /\ fields[1].flatten
    /\ fields[2].from_fn # <<>>
    /\ fr.outcome = "ok"
    /\ tr.outcome = "ok"

----------------------------------------------------------------------------
C4_WithoutRename(f) == [f EXCEPT !.rename = <<>>]

C4_NoColumn(init) == [init EXCEPT !.column = <<>>]

\* C4: the column a non-flattened field reads is the value of rename when
\* rename is set and the field's identifier otherwise; from_row and
\* try_from_row of a field use the same column; and rename changes nothing
\* else: without it the field validates as before and generates the same
\* predicates and the same initializers up to the column.
C4_RenameOnlyNamesColumn ==
    Returned =>
        \A i \in DOMAIN fields :
            LET f == fields[i]
                g == C4_WithoutRename(f)
                a == output.from_row[i]
                b == output.try_from_row[i]
            IN
            /\ ~f.flatten =>
                  /\ a.column = <<IF f.rename # <<>> THEN f.rename[1] ELSE f.ident>>
                  /\ b.column = a.column
            /\ Valid(g)
            /\ add_predicates(g, <<>>).val = add_predicates(f, <<>>).val
            /\ C4_NoColumn(generate_from_row(g).val) = C4_NoColumn(a)
            /\ C4_NoColumn(generate_try_from_row(g).val) = C4_NoColumn(b)

\* An impl was emitted for a renamed field next to a field that is not renamed.
C4_Witness ==
    /\ Returned
    /\ Len(fields) = 2
    /\ fields[1].rename # <<>> /\ fields[1].try_from # <<>>
    /\ fields[2].rename = <<>> /\ ~fields[2].flatten
    /\ output.from_row[1].column = <<"user_id">>
    /\ output.from_row[2].column = <<"text">>

----------------------------------------------------------------------------
\* The macro's output is a complete impl of the declaration: both operations,
\* each with one initializer per declared field, in declaration order.
CompleteImpl ==
    /\ output.kind = "impl"
    /\ output.errors = <<>>
    /\ Len(output.from_row) = Len(fields)
    /\ Len(output.try_from_row) = Len(fields)
    /\ \A i \in DOMAIN fields :
          /\ output.from_row[i].ident = fields[i].ident
          /\ output.try_from_row[i].ident = fields[i].ident

\* C5 as stated: for any struct whose fields all pass validation, generate
\* succeeds and emits both operations with one initializer per field, in
\* declaration order.
C5_ValidImpliesImpl ==
    (Derived /\ \A i \in DOMAIN fields : Valid(fields[i])) => CompleteImpl

\* C5, amended: for any struct whose fields all pass validation and whose
\* from, try_from, from_fn and try_from_fn strings all lex as token streams,
\* generate succeeds and emits both operations with one initializer per
\* field, in declaration order; a string that does not lex makes generate
\* fail with the lex error although validation passed.
C5_ValidAndLexedImpliesImpl ==
    /\ (Derived /\ \A i \in DOMAIN fields : Valid(fields[i]) /\ Lexes(fields[i]))
          => CompleteImpl
    /\ (Derived /\ (\A i \in DOMAIN fields : Valid(fields[i]))
          /\ \E i \in DOMAIN fields : ~Lexes(fields[i]))
          => output = write_errors(ErrLex)

\* An impl was emitted for a flattened field and a from_fn field together.
C5_Witness ==
    /\ Derived
    /\ Len(fields) = 2
    /\ fields[1].flatten
    /\ fields[2].from_fn = <<"json">>
    /\ CompleteImpl

----------------------------------------------------------------------------
C6_FirstInvalid ==
    CHOOSE i \in DOMAIN fields :
        ~Valid(fields[i]) /\ \A j \in 1..(i - 1) : Valid(fields[j])

C6_NoFieldCode ==
    /\ predicates = <<>>
    /\ from_row_fields = <<>>
    /\ try_from_row_fields = <<>>

\* C6: the derive is all-or-nothing. generate validates every field before
\* it produces any field code; if a field fails validation the output holds
\* only the error, which is that of the first invalid field in declaration
\* order, and no part of an impl; the output is always either a complete
\* impl or error tokens, never both.
C6_AllOrNothing ==
    /\ (Generating \/ ~C6_NoFieldCode \/ output.kind = "impl")
          => \A i \in DOMAIN fields : Valid(fields[i])
    /\ (Derived /\ \E i \in DOMAIN fields : ~Valid(fields[i])) =>
          /\ output = write_errors(FromRowField_validate(fields[C6_FirstInvalid]).err)
          /\ C6_NoFieldCode
    /\ Derived =>
          \/ CompleteImpl /\ output.predicates = predicates
          \/ /\ output.kind = "compile_error"
             /\ Len(output.errors) = 1
             /\ output.predicates = <<>>
             /\ output.from_row = <<>>
             /\ output.try_from_row = <<>>
    /\ stage # "done" => output = NoTokens

\* The first field is valid and the second is not: only its error came out.
C6_Witness ==
    /\ Derived
    /\ Len(fields) = 2
    /\ Valid(fields[1])
    /\ fields[2].flatten /\ fields[2].rename # <<>> /\ SetConversions(fields[2]) = {}
    /\ output = write_errors(ErrFlattenRename)

----------------------------------------------------------------------------
\* C7 as stated: a field may combine flatten with from = R (or try_from = R);
\* the derive then generates the nested FromRow call on R followed by the
\* conversion to the declared type.
C7_FlattenWithFromGenerates ==
    (/\ Derived
     /\ Len(fields) = 1
     /\ fields[1].flatten
     /\ fields[1].rename = <<>>
     /\ SetConversions(fields[1]) \in {{"from"}, {"try_from"}})
    => /\ output.kind = "impl"
       /\ output.from_row[1].extract = "FromRow::from_row"
       /\ output.from_row[1].target_ty = "R"
       /\ output.from_row[1].conv \in {"from", "try_from"}
       /\ output.try_from_row[1].extract = "FromRow::try_from_row?"
       /\ output.try_from_row[1].target_ty = "R"

----------------------------------------------------------------------------
C8_IsExtraction(q) == q.bound \in {"FromSql", "FromRow"}
C8_IsFromOfType(q) == q.bound = "From" /\ q.lhs \in {<<"i32">>, <<"User">>}
C8_UsesType(f) == f.from # <<>> \/ f.try_from # <<>>

C8_Bounds(f) ==
    LET T == <<f.ty>>
        extraction(R) == IF f.flatten THEN Pred(<<R>>, "FromRow", <<>>)
                                      ELSE Pred(<<R>>, "FromSql", <<>>)
    IN
    CASE f.from_fn # <<>> \/ f.try_from_fn # <<>> -> <<>>
      [] f.from # <<>> -> <<extraction(f.from[1]), Pred(T, "From", f.from)>>
      [] f.try_from # <<>> ->
            <<extraction(f.try_from[1]),
              Pred(T, "TryFrom", f.try_from),
              Pred(<<"tokio_postgres::Error">>, "From",
                   <<f.ty, "as TryFrom", f.try_from[1], "Error">>),
              Pred(<<f.ty, "as TryFrom", f.try_from[1], "Error">>, "Debug", <<>>)>>
      [] OTHER -> <<extraction(f.ty)>>

RECURSIVE C8_AllBounds(_, _)
C8_AllBounds(fs, i) ==
    IF i > Len(fs) THEN <<>> ELSE C8_Bounds(fs[i]) \o C8_AllBounds(fs, i + 1)

----------------------------------------------------------------------------
C9_PanickingForm == {<<"Row::get", "Row::try_get?">>,
                     <<"FromRow::from_row", "FromRow::try_from_row?">>}

C9_SameUpToFailure(a, b) ==
    /\ a.ident = b.ident
    /\ a.column = b.column
    /\ a.target_ty = b.target_ty
    /\ a.conv = b.conv
    /\ a.conv_fn = b.conv_fn
    /\ <<a.extract, b.extract>> \in C9_PanickingForm
    /\ <<a.on_err, b.on_err>> \in {<<"", "">>, <<"expect", "?">>}

\* C9: the two generated operations are the same mapping up to the failure
\* mode. For every field the from_row and the try_from_row initializer use
\* the same column, the same target type and the same conversion, and differ
\* only in get / expect / nested from_row against try_get? / ? / nested
\* try_from_row?; so on any row try_from_row returns Ok(v) exactly when
\* from_row returns v, and returns Err exactly when from_row panics.
C9_SameMappingUpToFailure ==
    /\ Returned =>
          /\ Len(output.from_row) = Len(output.try_from_row)
          /\ \A i \in DOMAIN output.from_row :
                C9_SameUpToFailure(output.from_row[i], output.try_from_row[i])
    /\ rt = "done" =>
          /\ fr.outcome \in {"ok", "panic"}
          /\ tr.outcome \in {"ok", "err"}
          /\ tr.outcome = "ok" <=> fr.outcome = "ok"
          /\ tr.outcome = "ok" => tr.value = fr.value
          /\ tr.outcome = "err" <=> fr.outcome = "panic"

\* On one row from_row panicked and try_from_row returned the Err of a failed
\* try_from of a renamed field.
C9_Witness ==
    /\ rt = "done"
    /\ Len(fields) = 2
    /\ fields[2].try_from # <<>> /\ fields[2].rename # <<>>
    /\ fr.outcome = "panic"
    /\ tr.outcome = "err"
    /\ tr.error = <<"convert", "text">>

----------------------------------------------------------------------------
RECURSIVE C10_Events(_, _, _)
\* What the fields from i on read and call on row r, up to the first failure.
C10_Events(fs, r, i) ==
    IF i > Len(fs) THEN <<>>
    ELSE LET f == fs[i]
             col == DeclaredColumn(f)
             own == IF f.flatten THEN C10_Events(UserFields, r, 1)
                    ELSE IF r[col] # "absent" /\ SetConversions(f) # {}
                         THEN <<<<"read", col>>, <<"call", C3_Conversion(f)>>>>
                         ELSE <<<<"read", col>>>>
         IN
         IF FieldFails(f, r) THEN own ELSE own \o C10_Events(fs, r, i + 1)

\* The Err of a field that cannot be built on row r.
C10_Error(f, r) ==
    IF f.flatten
    THEN <<"column", DeclaredColumn(UserFields[
              CHOOSE j \in DOMAIN UserFields : r[DeclaredColumn(UserFields[j])] = "absent"])>>
    ELSE IF r[DeclaredColumn(f)] = "absent" THEN <<"column", DeclaredColumn(f)>>
    ELSE <<"convert", f.ident>>

\* The log as pairs: what was done (read, call) to what.
C10_View(log) == [k \in DOMAIN log |-> <<log[k][1], log[k][2]>>]

\* C10: the generated try_from_row processes the fields in declaration order,
\* a flattened field's nested fields at that field's position, and stops at
\* the first field whose extraction or conversion fails: the Err is that
\* field's, no later column is read, no later conversion is called, and no
\* partly built struct is returned.
C10_InOrderStopAtFirstFailure ==
    LET first == FirstFailing(fields, row) IN
    /\ tr.outcome = "running" =>
          /\ first # 0 => tr.pos <= first
          /\ C10_View(tr.log) = C10_Events(SubSeq(fields, 1, tr.pos - 1), row, 1)
          /\ Len(tr.value) = tr.pos - 1
    /\ tr.outcome = "ok" =>
          /\ first = 0
          /\ C10_View(tr.log) = C10_Events(fields, row, 1)
          /\ Len(tr.value) = Len(fields)
    /\ tr.outcome = "err" =>
          /\ first # 0
          /\ tr.pos = first
          /\ tr.error = C10_Error(fields[first], row)
          /\ C10_View(tr.log) = C10_Events(fields, row, 1)
          /\ tr.value = <<>>

\* try_from_row returned the Err of the first field; the second field, whose
\* column is absent too, was never read.
C10_Witness ==
    /\ rt = "done"
    /\ Len(fields) = 2
    /\ fields[1].try_from_fn # <<>> /\ row[DeclaredColumn(fields[1])] = "bad"
    /\ ~fields[2].flatten /\ row[DeclaredColumn(fields[2])] = "absent"
    /\ tr.outcome = "err"
    /\ tr.error = <<"convert", "todo_id">>
    /\ Len(tr.log) = 2

====
